---------------------------- MODULE Spec2Model ----------------------------
(***************************************************************************)
(* Graph builder (src-tauri/src/mocks/init/init_graph.rs) and analysis     *)
(* result store (src-tauri/src/global/algo_store.rs).                      *)
(*                                                                         *)
(* Three specifications share one set of variables:                        *)
(*   Spec        one call of init_graph on a telemetry snapshot, the       *)
(*               iteration order of the HashMap left open;                 *)
(*   SpecStore   an AlgoStore under arbitrary getter and setter calls;     *)
(*   SpecFanOut  the five analyses, each writing its slot once, in any     *)
(*               interleaving.                                             *)
(*                                                                         *)
(* Graph, edge_factory and total_distance are imported by init_graph.rs    *)
(* and are not part of the files modelled here; they are modelled from     *)
(* their documented contract.                                              *)
(*                                                                         *)
(* Option<T> is a sequence of length 0 (None) or 1 (Some).  An f64 signal  *)
(* quality is counted in tenths (0.1 is 1, 0.9 is 9).                      *)
(***************************************************************************)
EXTENDS Integers, Sequences, FiniteSets, TLC

VARIABLES
    \* ---- init_graph: arguments
    snr_hashmap,            \* HashMap<(u32, u32), (f64, u64)>
    loc_hashmap,            \* HashMap<u32, MeshNode>
    \* ---- init_graph: locals
    pc,                     \* "idle" | "for_pairs" | "returned" | "panicked"
    visited,                \* keys the HashMap iterator has already yielded
    graph,
    edge_left_endpoints,
    edge_right_endpoints,
    edge_distances,
    edge_radio_quality,
    returned,               \* Option<Graph>: what the caller received
    on_duplicate,           \* the duplicate policy the Graph of this call showed
    \* ---- AlgoStore: fields
    aps,
    mincut,
    diff_cent,
    most_sim_t,
    pred_state,
    \* ---- AlgoStore: the calls made on it
    last_call,              \* [op, arg]: the most recent call
    ret,                    \* Option: what the most recent getter returned
    last_set,               \* per slot, Option: the argument of its last setter call
    \* ---- the five analyses
    results,                \* per analysis, the value it will pass to its setter
    pending                 \* analyses that have not written yet

builder_vars == <<snr_hashmap, loc_hashmap, pc, visited, graph,
                  edge_left_endpoints, edge_right_endpoints, edge_distances,
                  edge_radio_quality, returned, on_duplicate>>
store_vars == <<aps, mincut, diff_cent, most_sim_t, pred_state>>
call_vars == <<last_call, ret, last_set>>
fanout_vars == <<results, pending>>
vars == <<builder_vars, store_vars, call_vars, fanout_vars>>

None == << >>
Some(x) == <<x>>

----------------------------------------------------------------------------
(* Bounds                                                                  *)

MaxNode == 3
MaxObs == 2
MaxPayload == 2
MaxGraph == 2

----------------------------------------------------------------------------
(* Telemetry snapshots                                                     *)

NodeIds == 1..MaxNode
SnrValues == {1, 9}
Timestamps == {0, 100}
Observations == [snr : SnrValues, timestamp : Timestamps]

Position(lat, lon, alt) == [latitude_i |-> lat, longitude_i |-> lon, altitude |-> alt]
MeshNode(position) == [data |-> [position |-> position]]

\* test_prioritize_earlier_snr places node 1 at (43.7022, 72.2882) and node 2
\* at (43.7030, 72.2890), in units of 1e-7 degree; the nodes after them
\* continue the line.
SpreadPosition(n) == Position(437022000 + 8000 * (n - 1), 722882000 + 8000 * (n - 1), 0)
\* generate_zeroed_position
generate_zeroed_position == Position(0, 0, 0)

\* Every node located, or one node without an entry, or one node whose
\* record has no position.
LocMaps(ids) ==
    LET full == [n \in ids |-> MeshNode(Some(SpreadPosition(n)))]
    IN  {full}
        \cup {[n \in ids \ {b} |-> full[n]] : b \in ids}
        \cup {[full EXCEPT ![b] = MeshNode(None)] : b \in ids}

\* The snapshot of test_init_graph.
TestInitGraphSnr ==
    [k \in {<<1, 2>>, <<1, 3>>, <<1, 4>>, <<2, 3>>, <<2, 4>>, <<3, 4>>}
        |-> [snr |-> 9, timestamp |-> 0]]
TestInitGraphLoc == [n \in 1..4 |-> MeshNode(Some(generate_zeroed_position))]

----------------------------------------------------------------------------
(* Graph: a set of named nodes with dense indices and one weighted edge    *)
(* per unordered pair.                                                     *)

Graph_new == [names |-> << >>, edges |-> {}]

contains_node(g, name) == \E i \in DOMAIN g.names : g.names[i] = name

add_node(g, name) ==
    IF contains_node(g, name) THEN g
    ELSE [g EXCEPT !.names = Append(@, name)]

get_node_idx(g, name) == CHOOSE i \in DOMAIN g.names : g.names[i] = name

Edge(u, v, weight) == [u |-> u, v |-> v, weight |-> weight]

\* A second edge for a pair that already has one never becomes a parallel
\* edge; whether the stored edge is kept or replaced is the policy.
DuplicatePolicies == {"keep", "replace"}

add_edge_from_struct(g, edge, policy) ==
    LET same == {e \in g.edges : {e.u, e.v} = {edge.u, edge.v}}
    IN  IF same = {} THEN [g EXCEPT !.edges = @ \cup {edge}]
        ELSE IF policy = "keep" THEN g
        ELSE [g EXCEPT !.edges = (@ \ same) \cup {edge}]

get_order(g) == Len(g.names)
get_size(g) == Cardinality(g.edges)

\* The weight stored for the pair of names {a, b}, as an Option.
get_edge_weight(g, a, b) ==
    LET hit == {e \in g.edges : {g.names[e.u], g.names[e.v]} = {a, b}}
    IN  IF hit = {} THEN None ELSE Some((CHOOSE e \in hit : TRUE).weight)

----------------------------------------------------------------------------
(* Distance and weight                                                     *)

Abs(x) == IF x < 0 THEN -x ELSE x

\* Degrees are counted in units of 1e-7 degree, altitude in metres.
total_distance(lat1, lon1, alt1, lat2, lon2, alt2) ==
    Abs(lat1 - lat2) + Abs(lon1 - lon2) + Abs(alt1 - alt2)

\* The weight of an edge is a function of its distance and signal quality.
Weight(distance, radio_quality) == <<distance, radio_quality>>

edge_factory(a, b, distance, radio_s_quality) ==
    [i \in DOMAIN a |-> Edge(a[i], b[i], Weight(distance[i], radio_s_quality[i]))]

\* get_distance with the distance defaulted to zero for a missing position.
get_distance_or_zero(node_1, node_2) ==
    IF node_1.data.position = None \/ node_2.data.position = None THEN Some(0)
    ELSE LET node_1_pos == node_1.data.position[1]
             node_2_pos == node_2.data.position[1]
         IN  Some(total_distance(node_1_pos.latitude_i, node_1_pos.longitude_i,
                                 node_1_pos.altitude,
                                 node_2_pos.latitude_i, node_2_pos.longitude_i,
                                 node_2_pos.altitude))

\* Option<f64>: None when either unwrap() of a position panics.
get_distance(node_1, node_2) ==
    LET node_1_data == node_1.data
        node_2_data == node_2.data
    IN  IF node_1_data.position = None \/ node_2_data.position = None THEN None
        ELSE LET node_1_pos == node_1_data.position[1]
                 node_2_pos == node_2_data.position[1]
             IN  Some(total_distance(node_1_pos.latitude_i, node_1_pos.longitude_i,
                                     node_1_pos.altitude,
                                     node_2_pos.latitude_i, node_2_pos.longitude_i,
                                     node_2_pos.altitude))

----------------------------------------------------------------------------
(* init_graph                                                              *)

add_node_to_graph_if_not_exists(g, node_id) ==
    LET name == ToString(node_id)
    IN  IF ~contains_node(g, name) THEN add_node(g, name) ELSE g

\* ensure_endpoints inserting every node that has a location record as well.
RECURSIVE add_all_nodes(_, _)
add_all_nodes(g, ids) ==
    IF ids = {} THEN g
    ELSE LET n == CHOOSE m \in ids : TRUE
         IN  add_all_nodes(add_node(g, ToString(n)), ids \ {n})

ensure_endpoints_and_located(g, node_id, neighbor_id) ==
    add_all_nodes(add_node(add_node(g, ToString(node_id)), ToString(neighbor_id)),
                  DOMAIN loc_hashmap)

\* Lines 28-29: both endpoints of the observation are ensured.
ensure_endpoints(g, node_id, neighbor_id) ==
    add_node_to_graph_if_not_exists(add_node_to_graph_if_not_exists(g, node_id),
                                    neighbor_id)

\* add_edges keeping only the edges listed from the lower to the higher index.
RECURSIVE add_edges_forward_only(_, _, _)
add_edges_forward_only(g, edges, policy) ==
    IF edges = << >> THEN g
    ELSE add_edges_forward_only(
            IF Head(edges).u <= Head(edges).v
            THEN add_edge_from_struct(g, Head(edges), policy) ELSE g,
            Tail(edges), policy)

\* Lines 52-54: every edge of the factory's list is added, in list order.
RECURSIVE add_edges(_, _, _)
add_edges(g, edges, policy) ==
    IF edges = << >> THEN g
    ELSE add_edges(add_edge_from_struct(g, Head(edges), policy), Tail(edges), policy)

\* Lines 19-23: the locals of init_graph.
NewLocals ==
    [graph |-> Graph_new,
     edge_left_endpoints |-> << >>,
     edge_right_endpoints |-> << >>,
     edge_distances |-> << >>,
     edge_radio_quality |-> << >>]

Locals ==
    [graph |-> graph,
     edge_left_endpoints |-> edge_left_endpoints,
     edge_right_endpoints |-> edge_right_endpoints,
     edge_distances |-> edge_distances,
     edge_radio_quality |-> edge_radio_quality]

\* Lines 26-39, the body of `for neighbor_pair in snr_hashmap`: the locals
\* after the iteration, or None when get_node_idx or an unwrap() panics.
visit_pair(l, neighbor_pair) ==
    LET node_id == neighbor_pair[1]
        neighbor_id == neighbor_pair[2]
        g == ensure_endpoints(l.graph, node_id, neighbor_id)
        snr == snr_hashmap[neighbor_pair].snr
    IN  IF \/ ~contains_node(g, ToString(node_id))
           \/ ~contains_node(g, ToString(neighbor_id))
           \/ node_id \notin DOMAIN loc_hashmap
           \/ neighbor_id \notin DOMAIN loc_hashmap
        THEN None
        ELSE LET node_idx == get_node_idx(g, ToString(node_id))
                 neighbor_idx == get_node_idx(g, ToString(neighbor_id))
                 distance == get_distance(loc_hashmap[node_id], loc_hashmap[neighbor_id])
             IN  IF distance = None THEN None
                 ELSE Some([graph |-> g,
                            edge_left_endpoints |-> Append(l.edge_left_endpoints, node_idx),
                            edge_right_endpoints |-> Append(l.edge_right_endpoints, neighbor_idx),
                            edge_distances |-> Append(l.edge_distances, distance[1]),
                            edge_radio_quality |-> Append(l.edge_radio_quality, snr)])

\* Lines 42-55: the graph init_graph returns from its locals.
create_edges(l, policy) ==
    LET edges == edge_factory(l.edge_left_endpoints, l.edge_right_endpoints,
                              l.edge_distances, l.edge_radio_quality)
    IN  add_edges(l.graph, edges, policy)

SetLocals(l) ==
    /\ graph' = l.graph
    /\ edge_left_endpoints' = l.edge_left_endpoints
    /\ edge_right_endpoints' = l.edge_right_endpoints
    /\ edge_distances' = l.edge_distances
    /\ edge_radio_quality' = l.edge_radio_quality

\* One iteration of the first loop; the HashMap yields its entries in an
\* order the program does not control.  A panic unwinds the call: the
\* locals are dropped and nothing is returned.
VisitPair ==
    /\ pc = "for_pairs"
    /\ \E neighbor_pair \in DOMAIN snr_hashmap \ visited :
        LET l == visit_pair(Locals, neighbor_pair)
        IN  /\ visited' = visited \cup {neighbor_pair}
            /\ IF l = None
               THEN pc' = "panicked" /\ SetLocals(NewLocals)
               ELSE pc' = pc /\ SetLocals(l[1])
    /\ UNCHANGED <<snr_hashmap, loc_hashmap, returned, on_duplicate>>
    /\ UNCHANGED <<store_vars, call_vars, fanout_vars>>

\* The loop is over: the edges are created and added, the graph returned.
CreateEdges ==
    /\ pc = "for_pairs"
    /\ visited = DOMAIN snr_hashmap
    /\ \E policy \in DuplicatePolicies :
        LET g == create_edges(Locals, policy)
        IN  /\ on_duplicate' = policy
            /\ graph' = g
            /\ returned' = Some(g)
    /\ pc' = "returned"
    /\ UNCHANGED <<snr_hashmap, loc_hashmap, visited,
                   edge_left_endpoints, edge_right_endpoints, edge_distances,
                   edge_radio_quality>>
    /\ UNCHANGED <<store_vars, call_vars, fanout_vars>>

InitGraphCall ==
    \/ VisitPair
    \/ CreateEdges

----------------------------------------------------------------------------
(* AnalysisResult and AlgoStore                                            *)

Empty(b) == [tag |-> "Empty", val |-> IF b THEN 1 ELSE 0]
Success(x) == [tag |-> "Success", val |-> x]
Error(e) == [tag |-> "Error", val |-> e]

\* APResult, MinCutResult, DiffCenResult: what a caller can pass to a setter.
AnalysisResults ==
    {Empty(TRUE), Empty(FALSE)}
    \cup {Success(x) : x \in 1..MaxPayload}
    \cup {Error(e) : e \in 1..MaxPayload}

\* The graphs a caller can pass to set_most_sim_t and set_pred_state.
Graphs == 1..MaxGraph

Slots == {"aps", "mincut", "diff_cent", "most_sim_t", "pred_state"}

AlgoStore_new ==
    [aps |-> Empty(TRUE), mincut |-> Empty(TRUE), diff_cent |-> Empty(TRUE),
     most_sim_t |-> Empty(TRUE), pred_state |-> Empty(TRUE)]

\* get_mincut reading the neighbouring field.
get_mincut_of_aps == aps

\* set_mincut assigning the neighbouring field.
set_mincut_into_aps(v) ==
    /\ aps' = v
    /\ UNCHANGED <<mincut, diff_cent, most_sim_t, pred_state>>

\* set_diff_cent that also resets the articulation points.
set_diff_cent_resetting_aps(v) ==
    /\ diff_cent' = v
    /\ aps' = Empty(TRUE)
    /\ UNCHANGED <<mincut, most_sim_t, pred_state>>

\* set_pred_state assigning the other graph slot.
set_pred_state_into_most_sim_t(g) ==
    /\ most_sim_t' = Success(g)
    /\ UNCHANGED <<aps, mincut, diff_cent, pred_state>>

get_aps == aps
get_mincut == mincut
get_diff_cent == diff_cent
get_most_sim_t == most_sim_t
get_pred_state == pred_state

set_aps(v) ==
    /\ aps' = v
    /\ UNCHANGED <<mincut, diff_cent, most_sim_t, pred_state>>

set_mincut(v) ==
    /\ mincut' = v
    /\ UNCHANGED <<aps, diff_cent, most_sim_t, pred_state>>

set_diff_cent(v) ==
    /\ diff_cent' = v
    /\ UNCHANGED <<aps, mincut, most_sim_t, pred_state>>

set_most_sim_t(g) ==
    /\ most_sim_t' = Success(g)
    /\ UNCHANGED <<aps, mincut, diff_cent, pred_state>>

set_pred_state(g) ==
    /\ pred_state' = Success(g)
    /\ UNCHANGED <<aps, mincut, diff_cent, most_sim_t>>

\* The store as a record of its five fields.
Store ==
    [aps |-> aps, mincut |-> mincut, diff_cent |-> diff_cent,
     most_sim_t |-> most_sim_t, pred_state |-> pred_state]

Getter(op, value) ==
    /\ ret' = Some(value)
    /\ last_call' = [op |-> op, arg |-> None]
    /\ UNCHANGED <<store_vars, last_set>>
    /\ UNCHANGED <<builder_vars, fanout_vars>>

Setter(op, slot, arg) ==
    /\ ret' = None
    /\ last_call' = [op |-> op, arg |-> Some(arg)]
    /\ last_set' = [last_set EXCEPT ![slot] = Some(arg)]
    /\ UNCHANGED <<builder_vars, fanout_vars>>

CallGetAps == Getter("get_aps", get_aps)
CallGetMincut == Getter("get_mincut", get_mincut)
CallGetDiffCent == Getter("get_diff_cent", get_diff_cent)
CallGetMostSimT == Getter("get_most_sim_t", get_most_sim_t)
CallGetPredState == Getter("get_pred_state", get_pred_state)

CallSetAps == \E v \in AnalysisResults : set_aps(v) /\ Setter("set_aps", "aps", v)
CallSetMincut == \E v \in AnalysisResults : set_mincut(v) /\ Setter("set_mincut", "mincut", v)
CallSetDiffCent ==
    \E v \in AnalysisResults : set_diff_cent(v) /\ Setter("set_diff_cent", "diff_cent", v)
CallSetMostSimT ==
    \E g \in Graphs : set_most_sim_t(g) /\ Setter("set_most_sim_t", "most_sim_t", g)
CallSetPredState ==
    \E g \in Graphs : set_pred_state(g) /\ Setter("set_pred_state", "pred_state", g)

----------------------------------------------------------------------------
(* The five analyses: each writes its own slot once.                       *)

Analysis(slot) ==
    /\ slot \in pending
    /\ pending' = pending \ {slot}
    /\ UNCHANGED <<results, builder_vars, call_vars>>

WriteAps == Analysis("aps") /\ set_aps(results.aps)
WriteMincut == Analysis("mincut") /\ set_mincut(results.mincut)
WriteDiffCent == Analysis("diff_cent") /\ set_diff_cent(results.diff_cent)
WriteMostSimT == Analysis("most_sim_t") /\ set_most_sim_t(results.most_sim_t)
WritePredState == Analysis("pred_state") /\ set_pred_state(results.pred_state)

----------------------------------------------------------------------------
(* Specifications                                                          *)

BuilderIdle ==
    /\ snr_hashmap = << >>
    /\ loc_hashmap = << >>
    /\ pc = "idle"
    /\ visited = {}
    /\ graph = Graph_new
    /\ edge_left_endpoints = << >>
    /\ edge_right_endpoints = << >>
    /\ edge_distances = << >>
    /\ edge_radio_quality = << >>
    /\ returned = None
    /\ on_duplicate = "unset"

StoreNew ==
    /\ aps = AlgoStore_new.aps
    /\ mincut = AlgoStore_new.mincut
    /\ diff_cent = AlgoStore_new.diff_cent
    /\ most_sim_t = AlgoStore_new.most_sim_t
    /\ pred_state = AlgoStore_new.pred_state
    /\ last_call = [op |-> "new", arg |-> None]
    /\ ret = None
    /\ last_set = [s \in Slots |-> None]

FanOutIdle ==
    /\ results = << >>
    /\ pending = {}

\* init_graph is entered with a snapshot: up to MaxObs observations among
\* the nodes 1..MaxNode, or the snapshot of test_init_graph.
Init ==
    /\ \/ /\ \E D \in SUBSET (NodeIds \X NodeIds) :
                /\ Cardinality(D) <= MaxObs
                /\ snr_hashmap \in [D -> Observations]
          /\ loc_hashmap \in LocMaps(NodeIds)
       \/ /\ snr_hashmap = TestInitGraphSnr
          /\ loc_hashmap = TestInitGraphLoc
    /\ pc = "for_pairs"
    /\ visited = {}
    /\ graph = Graph_new
    /\ edge_left_endpoints = << >>
    /\ edge_right_endpoints = << >>
    /\ edge_distances = << >>
    /\ edge_radio_quality = << >>
    /\ returned = None
    /\ on_duplicate = "unset"
    /\ StoreNew
    /\ FanOutIdle

Next == InitGraphCall

Spec == Init /\ [][Next]_vars

InitStore == BuilderIdle /\ StoreNew /\ FanOutIdle

NextStore ==
    \/ CallGetAps
    \/ CallGetMincut
    \/ CallGetDiffCent
    \/ CallGetMostSimT
    \/ CallGetPredState
    \/ CallSetAps
    \/ CallSetMincut
    \/ CallSetDiffCent
    \/ CallSetMostSimT
    \/ CallSetPredState

SpecStore == InitStore /\ [][NextStore]_vars

InitFanOut ==
    /\ BuilderIdle
    /\ StoreNew
    /\ results \in [aps : AnalysisResults, mincut : AnalysisResults,
                    diff_cent : AnalysisResults, most_sim_t : Graphs,
                    pred_state : Graphs]
    /\ pending = Slots

NextFanOut ==
    \/ WriteAps
    \/ WriteMincut
    \/ WriteDiffCent
    \/ WriteMostSimT
    \/ WritePredState

SpecFanOut == InitFanOut /\ [][NextFanOut]_vars

----------------------------------------------------------------------------
(* Vocabulary of the properties                                            *)

ObservedIds == {k[1] : k \in DOMAIN snr_hashmap} \cup {k[2] : k \in DOMAIN snr_hashmap}
ObservedPairs == {{k[1], k[2]} : k \in DOMAIN snr_hashmap}

\* A node whose position init_graph can read.
Resolvable(n) == n \in DOMAIN loc_hashmap /\ loc_hashmap[n].data.position # None
SnapshotResolvable == \A n \in ObservedIds : Resolvable(n)

\* A graph as its callers see it: addressed by node name.
NodeNames(g) == {g.names[i] : i \in DOMAIN g.names}
NamedEdges(g) ==
    {[ends |-> {g.names[e.u], g.names[e.v]}, weight |-> e.weight] : e \in g.edges}
Named(g) == [nodes |-> NodeNames(g), edges |-> NamedEdges(g)]

\* The pair {a, b} was observed in both directions and (a, b) is the later.
LaterOf(a, b) ==
    /\ a # b
    /\ <<a, b>> \in DOMAIN snr_hashmap
    /\ <<b, a>> \in DOMAIN snr_hashmap
    /\ snr_hashmap[<<a, b>>].timestamp > snr_hashmap[<<b, a>>].timestamp

\* The weight the observation (a, b) gives its pair.
WeightOf(a, b) ==
    Weight(get_distance(loc_hashmap[a], loc_hashmap[b])[1], snr_hashmap[<<a, b>>].snr)

\* The keys of the snapshot in ascending order, and the call that visits
\* them in a given order.
KeyBefore(k, j) == k[1] < j[1] \/ (k[1] = j[1] /\ k[2] <= j[2])

RECURSIVE Ascending(_)
Ascending(keys) ==
    IF keys = {} THEN << >>
    ELSE LET first == CHOOSE k \in keys : \A j \in keys : KeyBefore(k, j)
         IN  <<first>> \o Ascending(keys \ {first})

RECURSIVE init_graph_in_order(_, _, _)
init_graph_in_order(l, order, policy) ==
    IF order = << >> THEN Some(create_edges(l, policy))
    ELSE LET next == visit_pair(l, Head(order))
         IN  IF next = None THEN None
             ELSE init_graph_in_order(next[1], Tail(order), policy)

----------------------------------------------------------------------------
(* Properties of init_graph                                                *)

\* C1: for a pair observed in both directions with different timestamps,
\* the edge of the returned graph carries the weight derived from the
\* signal quality of the later observation, whatever the iteration order.
C1_LaterTimestampWins ==
    returned # None =>
        \A a \in ObservedIds, b \in ObservedIds :
            LaterOf(a, b) =>
                get_edge_weight(returned[1], ToString(a), ToString(b)) = Some(WeightOf(a, b))

\* C2: the order of the returned graph is the number of distinct node
\* identifiers occurring in an observation key; its nodes are exactly those
\* identifiers, each inserted once, and no position-only node is among them.
C2_OrderIsObservedIds ==
    returned # None =>
        LET g == returned[1]
        IN  /\ get_order(g) = Cardinality(ObservedIds)
            /\ NodeNames(g) = {ToString(n) : n \in ObservedIds}
            /\ \A i \in DOMAIN g.names, j \in DOMAIN g.names :
                    g.names[i] = g.names[j] => i = j

\* A returned graph of a snapshot in which one identifier occurs in two
\* observations and a located node occurs in none.
C2_Witness ==
    /\ returned # None
    /\ \E n \in DOMAIN loc_hashmap : Resolvable(n) /\ n \notin ObservedIds
    /\ \E k \in DOMAIN snr_hashmap, j \in DOMAIN snr_hashmap :
            k # j /\ {k[1], k[2]} \cap {j[1], j[2]} # {}

\* C3: the returned graph holds exactly one edge per observed unordered
\* pair, so its size is the number of such pairs; the snapshot of
\* test_init_graph (4 nodes, 6 pairs) gives order 4 and size 6.
C3_OneEdgePerPair ==
    returned # None =>
        LET g == returned[1]
        IN  /\ get_size(g) = Cardinality(ObservedPairs)
            /\ {e.ends : e \in NamedEdges(g)}
                    = {{ToString(n) : n \in pair} : pair \in ObservedPairs}
            /\ \A e \in g.edges, f \in g.edges : {e.u, e.v} = {f.u, f.v} => e = f
            /\ snr_hashmap = TestInitGraphSnr => get_order(g) = 4 /\ get_size(g) = 6

\* A returned graph of a snapshot with a pair observed in both directions.
C3_Witness ==
    /\ returned # None
    /\ \E a \in ObservedIds, b \in ObservedIds :
            a # b /\ {<<a, b>>, <<b, a>>} \subseteq DOMAIN snr_hashmap
    /\ get_size(returned[1]) < Cardinality(DOMAIN snr_hashmap)

\* C4: a graph is returned only when every endpoint of every observation
\* has a position, and then every observation has its edge with the distance
\* of its endpoints; with an unresolvable endpoint the call ends in a panic
\* and returns nothing.
C4_AllOrNothing ==
    /\ returned # None =>
            /\ SnapshotResolvable
            /\ \A k \in DOMAIN snr_hashmap :
                LET w == get_edge_weight(returned[1], ToString(k[1]), ToString(k[2]))
                IN  w # None /\ Some(w[1][1]) = get_distance(loc_hashmap[k[1]], loc_hashmap[k[2]])
    /\ pc = "panicked" => returned = None /\ graph = Graph_new
    /\ ~SnapshotResolvable =>
            /\ pc \in {"for_pairs", "panicked"}
            /\ visited = DOMAIN snr_hashmap => pc = "panicked"

\* The call panicked after an earlier observation had been processed.
C4_Witness ==
    /\ pc = "panicked"
    /\ Cardinality(visited) >= 2
    /\ \E k \in visited : Resolvable(k[1]) /\ Resolvable(k[2])

\* C5: the returned graph, addressed by node identifier, is the graph the
\* call returns when it visits the observations in ascending key order: no
\* two iteration orders give different graphs.
C5_OrderIndependent ==
    returned # None =>
        LET reference == init_graph_in_order(NewLocals, Ascending(DOMAIN snr_hashmap),
                                             on_duplicate)
        IN  reference # None /\ Named(returned[1]) = Named(reference[1])

\* C10: a returned graph has no self-loop, and both endpoints of each of its
\* edges are nodes of it.
C10_NoSelfLoop ==
    returned # None =>
        \A e \in returned[1].edges :
            /\ e.u # e.v
            /\ e.u \in DOMAIN returned[1].names
            /\ e.v \in DOMAIN returned[1].names

----------------------------------------------------------------------------
(* Properties of AlgoStore                                                 *)

Getters == {"get_aps", "get_mincut", "get_diff_cent", "get_most_sim_t", "get_pred_state"}
GraphSlots == {"most_sim_t", "pred_state"}

\* What the slot holds by the calls made so far: the argument of the last
\* call of its setter, or Empty when there was none.
LastSetOr(slot) == IF last_set[slot] = None THEN Empty(TRUE) ELSE last_set[slot][1]

\* C6: a new store has five Empty slots; aps, mincut and diff_cent each hold,
\* and their getters return, the value last passed to their own setter, or
\* Empty when that setter was never called.
C6_GetReturnsLastSet ==
    /\ last_call.op = "new" => \A slot \in Slots : Store[slot] = Empty(TRUE)
    /\ \A slot \in {"aps", "mincut", "diff_cent"} : Store[slot] = LastSetOr(slot)
    /\ last_call.op = "get_aps" => ret = Some(LastSetOr("aps"))
    /\ last_call.op = "get_mincut" => ret = Some(LastSetOr("mincut"))
    /\ last_call.op = "get_diff_cent" => ret = Some(LastSetOr("diff_cent"))

\* get_mincut returns an Error set earlier, after set_aps was called and
\* while set_diff_cent never was.
C6_Witness ==
    /\ last_call.op = "get_mincut"
    /\ ret = Some(Error(1))
    /\ last_set["aps"] = Some(Success(2))
    /\ last_set["diff_cent"] = None

\* C7: a setter changes no slot but its own, and a getter changes no slot.
C7_Frame ==
    [][/\ last_call'.op = "set_aps" => UNCHANGED <<mincut, diff_cent, most_sim_t, pred_state>>
       /\ last_call'.op = "set_mincut" => UNCHANGED <<aps, diff_cent, most_sim_t, pred_state>>
       /\ last_call'.op = "set_diff_cent" => UNCHANGED <<aps, mincut, most_sim_t, pred_state>>
       /\ last_call'.op = "set_most_sim_t" => UNCHANGED <<aps, mincut, diff_cent, pred_state>>
       /\ last_call'.op = "set_pred_state" => UNCHANGED <<aps, mincut, diff_cent, most_sim_t>>
       /\ last_call'.op \in Getters => UNCHANGED store_vars]_vars

\* An Error was just recorded for mincut while other slots hold a Success,
\* an Error and an Empty.
C7_Witness ==
    /\ last_call = [op |-> "set_mincut", arg |-> Some(Error(1))]
    /\ aps.tag = "Success"
    /\ diff_cent.tag = "Error"
    /\ pred_state.tag = "Success"
    /\ most_sim_t.tag = "Empty"

\* C8: once set_most_sim_t or set_pred_state has been called, its slot is
\* Success of the graph passed last, and a Success in one of these two slots
\* is never followed by anything but a Success.
C8_GraphSlotsStaySuccess ==
    /\ [](\A slot \in GraphSlots :
            last_set[slot] # None => Store[slot] = Success(last_set[slot][1]))
    /\ [][/\ most_sim_t.tag = "Success" => most_sim_t'.tag = "Success"
          /\ pred_state.tag = "Success" => pred_state'.tag = "Success"]_vars

\* Both graph slots were set, the second graph passed last, while aps was
\* set back to Empty and mincut to Error.
C8_Witness ==
    /\ pred_state = Success(2)
    /\ most_sim_t = Success(2)
    /\ last_set["aps"] # None /\ aps.tag = "Empty"
    /\ last_set["mincut"] # None /\ mincut.tag = "Error"

\* C9: whatever the interleaving, a slot whose analysis has written holds
\* that analysis's result and a slot whose analysis has not is still Empty;
\* so the final store is determined by the five results alone.
WrittenBy(slot) == IF slot \in GraphSlots THEN Success(results[slot]) ELSE results[slot]

C9_InterleavingIndependent ==
    \A slot \in Slots :
        Store[slot] = IF slot \in pending THEN AlgoStore_new[slot] ELSE WrittenBy(slot)

\* All five analyses have written, with a Success, an Error and an Empty
\* among the results.
C9_Witness ==
    /\ pending = {}
    /\ aps.tag = "Error"
    /\ mincut.tag = "Success"
    /\ diff_cent.tag = "Empty"
    /\ most_sim_t # pred_state

=============================================================================
